---- MODULE Spec2Model ----
(***************************************************************************)
(* A state-machine model of src/feature_extraction.py:                     *)
(*   lambda_minus_corner_detection, harris_corner_detection,               *)
(*   extract_feature_descriptors and match_features.                       *)
(* Each function is a small program of its own: its inputs are drawn in    *)
(* the initial state, its loops advance one iteration per step, and pc     *)
(* records the position in the function body.  Variables that belong to a  *)
(* function that is not running keep the idle values of Idle*.             *)
(***************************************************************************)
EXTENDS Integers, Sequences, FiniteSets

VARIABLES
    pc,                 \* position in the running function
    \* match_features
    descriptors1, descriptors2, dtype, method,
    i, j, best_match_index, best_match_score, matches,
    \* the image argument and its grayscale conversion
    img, gray,
    \* the corner list: argument of extract_feature_descriptors, result of
    \* the two detectors
    corners,
    \* extract_feature_descriptors
    patch_size, corner_idx, descriptors,
    \* lambda_minus_corner_detection
    window_size, th_percentage, lambda_minus, threshold, y, x,
    \* harris_corner_detection (it shares window_size, th_percentage, threshold)
    k, R

matchVars == <<descriptors1, descriptors2, dtype, method,
               i, j, best_match_index, best_match_score, matches>>
imageVars == <<img, gray>>
extractVars == <<patch_size, corner_idx, descriptors>>
lambdaVars == <<window_size, th_percentage, lambda_minus, threshold, y, x>>
harrisVars == <<k, R>>
vars == <<pc, matchVars, imageVars, corners, extractVars, lambdaVars, harrisVars>>
otherThanMatch == <<imageVars, corners, extractVars, lambdaVars, harrisVars>>

(***************************************************************************)
(* Bounds of the model.                                                    *)
(***************************************************************************)
MaxDesc1 == 2      \* most descriptors in descriptors1
MaxDesc2 == 2      \* most descriptors in descriptors2
ImgW == 5          \* width of the image given to extract_feature_descriptors
ImgH == 4          \* height of that image
MaxPatch == 4      \* largest patch_size
MaxCorners == 2    \* most corners in the corner list
MapW == 5          \* width of a response map given to the corner selection
MapH == 3          \* height of that response map
MaxPeaks == 1      \* most pixels of a response map that differ from its background
MaxWindow == 1     \* largest window_size tried on a response map
SceneSize == 32    \* side of the synthetic L-corner image
SceneCorner == 16  \* both coordinates of its corner
HarrisW == 4       \* width of the image given to harris_corner_detection
HarrisH == 3       \* height of that image
MaxSpots == 1      \* most pixels of that image that differ from its base pattern
MaxBox == 2        \* largest window_size of the box filter

\* def lambda_minus_corner_detection(img, window_size=5, th_percentage=0.01)
DefaultWindowSize == 5

(***************************************************************************)
(* Generic helpers.                                                        *)
(***************************************************************************)
RECURSIVE SumSeq(_)
SumSeq(s) == IF s = <<>> THEN 0 ELSE Head(s) + SumSeq(Tail(s))

SeqsUpTo(S, n) == UNION { [1..len -> S] : len \in 0..n }

(***************************************************************************)
(* numpy element arithmetic.  A uint8 array subtracts, multiplies and      *)
(* squares element-wise in 8 bits (the result wraps modulo 256); a float64 *)
(* array of small integers computes exactly.                               *)
(***************************************************************************)
Wrap(dt, v) == IF dt = "uint8" THEN v % 256 ELSE v

ElemSub(dt, a, b) == Wrap(dt, a - b)
ElemMul(dt, a, b) == Wrap(dt, a * b)
ElemSquare(dt, a) == Wrap(dt, a * a)

(***************************************************************************)
(* Natural numbers of any size, for the 53-bit significands of float64 and *)
(* their 106-bit products: a number is the sequence of its digits in base  *)
(* 2^LimbBits, least significant first, without leading zero digits.       *)
(***************************************************************************)
LimbBits == 15
Base == 2^LimbBits

RECURSIVE BigOfNat(_)
BigOfNat(n) == IF n = 0 THEN <<>> ELSE <<n % Base>> \o BigOfNat(n \div Base)

RECURSIVE BigTrim(_)
BigTrim(a) ==
    IF a # <<>> /\ a[Len(a)] = 0 THEN BigTrim(SubSeq(a, 1, Len(a) - 1)) ELSE a

RECURSIVE BigAddCarry(_, _, _)
BigAddCarry(a, b, carry) ==
    IF a = <<>> /\ b = <<>>
    THEN IF carry = 0 THEN <<>> ELSE <<carry>>
    ELSE LET s == (IF a = <<>> THEN 0 ELSE Head(a)) + (IF b = <<>> THEN 0 ELSE Head(b)) + carry
         IN  <<s % Base>> \o BigAddCarry(IF a = <<>> THEN <<>> ELSE Tail(a),
                                         IF b = <<>> THEN <<>> ELSE Tail(b), s \div Base)

BigAdd(a, b) == BigAddCarry(a, b, 0)

RECURSIVE BigMulLimb(_, _, _)
BigMulLimb(a, d, carry) ==
    IF a = <<>>
    THEN IF carry = 0 THEN <<>> ELSE <<carry>>
    ELSE LET p == Head(a) * d + carry
         IN  <<p % Base>> \o BigMulLimb(Tail(a), d, p \div Base)

RECURSIVE BigMulRows(_, _)
BigMulRows(a, b) ==
    IF b = <<>> THEN <<>>
    ELSE BigAdd(BigMulLimb(a, Head(b), 0), <<0>> \o BigMulRows(a, Tail(b)))

BigMul(a, b) == BigTrim(BigMulRows(a, b))

BigLess(a, b) ==
    IF Len(a) # Len(b) THEN Len(a) < Len(b)
    ELSE \E p \in 1..Len(a) :
            /\ a[p] < b[p]
            /\ \A h \in (p + 1)..Len(a) : a[h] = b[h]

RECURSIVE NatBits(_)
NatBits(n) == IF n = 0 THEN 0 ELSE 1 + NatBits(n \div 2)

BigBits(a) == IF a = <<>> THEN 0 ELSE LimbBits * (Len(a) - 1) + NatBits(a[Len(a)])

\* a * 2^sh and floor(a / 2^sh)
BigShl(a, sh) ==
    BigTrim([p \in 1..(sh \div LimbBits) |-> 0] \o BigMulLimb(a, 2^(sh % LimbBits), 0))

BigShr(a, sh) ==
    LET r == sh % LimbBits
        b == SubSeq(a, (sh \div LimbBits) + 1, Len(a))
    IN  BigTrim([p \in 1..Len(b) |->
                    (b[p] \div 2^r)
                  + (IF p < Len(b) THEN (b[p + 1] % 2^r) * 2^(LimbBits - r) ELSE 0)])

\* bit number pos of a, bit 0 being the least significant
BigBit(a, pos) ==
    IF (pos \div LimbBits) + 1 > Len(a) THEN 0
    ELSE (a[(pos \div LimbBits) + 1] \div 2^(pos % LimbBits)) % 2

RECURSIVE BigSubBorrow(_, _, _)
BigSubBorrow(a, b, borrow) ==
    IF a = <<>> THEN <<>>
    ELSE LET s == Head(a) - (IF b = <<>> THEN 0 ELSE Head(b)) - borrow
         IN  <<s % Base>> \o BigSubBorrow(Tail(a), IF b = <<>> THEN <<>> ELSE Tail(b),
                                          IF s < 0 THEN 1 ELSE 0)

\* a - b for a >= b
BigSub(a, b) == BigTrim(BigSubBorrow(a, b, 0))

\* digit number p of a, digit 1 being the least significant
Digit(a, p) == IF p \in 1..Len(a) THEN a[p] ELSE 0

\* the largest digit up to est whose product with d is at most rem
RECURSIVE BigDivDigitFrom(_, _, _)
BigDivDigitFrom(rem, d, est) ==
    IF est > 0 /\ BigLess(rem, BigTrim(BigMulLimb(d, est, 0)))
    THEN BigDivDigitFrom(rem, d, est - 1)
    ELSE est

\* the largest digit whose product with d is at most rem < d * Base: the quotient
\* of the leading digits is never below it, and at most 2 above it when the
\* leading digit of d is at least Base / 2
BigDivDigit(rem, d) ==
    LET lead == Digit(rem, Len(d) + 1) * Base + Digit(rem, Len(d))
        est == lead \div d[Len(d)]
    IN  BigDivDigitFrom(rem, d, IF est < Base THEN est ELSE Base - 1)

\* floor(n / d) by long division, from the leading digit of n down
RECURSIVE BigDivFrom(_, _, _, _, _)
RECURSIVE BigDivStep(_, _, _, _, _, _)
BigDivFrom(n, d, pos, rem, q) ==
    IF pos = 0 THEN BigTrim(q)
    ELSE BigDivStep(n, d, pos, BigTrim(<<n[pos]>> \o rem), q,
                    BigDivDigit(BigTrim(<<n[pos]>> \o rem), d))

BigDivStep(n, d, pos, rem, q, digit) ==
    BigDivFrom(n, d, pos - 1, BigSub(rem, BigMulLimb(d, digit, 0)), <<digit>> \o q)

BigDiv(n, d) == BigDivFrom(n, d, Len(n), <<>>, <<>>)

\* floor(sqrt(v)) of a machine integer, one bit at a time
RECURSIVE NatSqrtFrom(_, _, _)
NatSqrtFrom(v, r, bit) ==
    IF bit < 0 THEN r
    ELSE IF (r + 2^bit) * (r + 2^bit) <= v
    THEN NatSqrtFrom(v, r + 2^bit, bit - 1)
    ELSE NatSqrtFrom(v, r, bit - 1)

NatSqrt(v) == NatSqrtFrom(v, 0, LimbBits - 1)

\* the largest digit c up to est with (2 * root * Base + c) * c <= rem
RECURSIVE BigSqrtDigitFrom(_, _, _)
BigSqrtDigitFrom(rem, root, est) ==
    IF est > 0 /\ BigLess(rem, BigTrim(BigMulLimb(<<est>> \o BigMulLimb(root, 2, 0), est, 0)))
    THEN BigSqrtDigitFrom(rem, root, est - 1)
    ELSE est

\* the next digit of a square root: at most rem / (2 * root * Base), which
\* is computed as (rem * Base / 2) / (root * Base^2)
BigSqrtDigit(rem, root) ==
    BigSqrtDigitFrom(rem, root,
        BigDivDigit(BigTrim(BigMulLimb(rem, Base \div 2, 0)), <<0, 0>> \o root))

\* floor(sqrt(n)) by the long-hand method, two digits of n for one digit of
\* the root, from the leading pair down
RECURSIVE BigSqrtFrom(_, _, _, _)
RECURSIVE BigSqrtStep(_, _, _, _, _)
BigSqrtFrom(n, pair, rem, root) ==
    IF pair = 0 THEN root
    ELSE BigSqrtStep(n, pair, BigTrim(<<Digit(n, 2 * pair - 1), Digit(n, 2 * pair)>> \o rem), root,
             IF root = <<>>
             THEN NatSqrt(Digit(n, 2 * pair) * Base + Digit(n, 2 * pair - 1))
             ELSE BigSqrtDigit(BigTrim(<<Digit(n, 2 * pair - 1), Digit(n, 2 * pair)>> \o rem), root))

BigSqrtStep(n, pair, rem, root, digit) ==
    BigSqrtFrom(n, pair - 1,
                BigSub(rem, BigMulLimb(<<digit>> \o BigMulLimb(root, 2, 0), digit, 0)),
                BigTrim(<<digit>> \o root))

BigSqrt(n) == BigSqrtFrom(n, (Len(n) + 1) \div 2, <<>>, <<>>)

(***************************************************************************)
(* float64.  A score is +inf, NaN, or the number sign * m * 2^e with sign  *)
(* in {-1, 0, 1} and a significand m of exactly Precision bits (m empty    *)
(* and e = 0 for zero).  The scores of the sample descriptors are far from *)
(* the subnormal and the overflow range, which are not modelled.           *)
(***************************************************************************)
Precision == 53

Inf == [kind |-> "inf", sign |-> 1, m |-> <<>>, e |-> 0]
NaN == [kind |-> "nan", sign |-> 0, m |-> <<>>, e |-> 0]
Zero == [kind |-> "num", sign |-> 0, m |-> <<>>, e |-> 0]

Abs(v) == IF v < 0 THEN -v ELSE v
Sign(v) == IF v < 0 THEN -1 ELSE IF v = 0 THEN 0 ELSE 1

\* the float64 nearest to sign * v * 2^e, ties to the even significand,
\* where v = n when exact and n < v < n + 1 otherwise
RoundToDouble(sign, n, e, exact) ==
    LET len == BigBits(n)
        sh == len - Precision
        m == BigShr(n, sh)
        half == BigBit(n, sh - 1) = 1
        below == ~exact \/ BigShl(BigShr(n, sh - 1), sh - 1) # n
        up == BigAdd(m, <<1>>)
    IN  IF n = <<>> THEN Zero
        ELSE IF sh <= 0
        THEN [kind |-> "num", sign |-> sign, m |-> BigShl(n, -sh), e |-> e + sh]
        ELSE IF ~(half /\ (below \/ BigBit(m, 0) = 1))
        THEN [kind |-> "num", sign |-> sign, m |-> m, e |-> e + sh]
        ELSE IF BigBits(up) = Precision
        THEN [kind |-> "num", sign |-> sign, m |-> up, e |-> e + sh]
        ELSE [kind |-> "num", sign |-> sign, m |-> BigShr(up, 1), e |-> e + sh + 1]

\* an integer as a float64 (exact below 2^53)
DoubleOfInt(c) == RoundToDouble(Sign(c), BigOfNat(Abs(c)), 0, TRUE)

\* np.sqrt of a natural number: the root is taken of n * 4^t, with t such
\* that n * 4^t fills 2 * SqrtDigits digits and the root SqrtDigits digits
SqrtDigits == (Precision \div LimbBits) + 1

DoubleSqrt(n) ==
    LET t == (2 * SqrtDigits * LimbBits - NatBits(n)) \div 2
        scaled == BigShl(BigOfNat(n), 2 * t)
        r == BigSqrt(scaled)
    IN  IF n = 0 THEN Zero ELSE RoundToDouble(1, r, -t, BigMul(r, r) = scaled)

\* f * g
DoubleMul(f, g) ==
    RoundToDouble(f.sign * g.sign, BigMul(f.m, g.m), f.e + g.e, TRUE)

\* f / g for finite f and g; 0 / 0 is NaN.  The divisor is scaled to fill
\* SqrtDigits digits and the dividend to twice as many.
DoubleDiv(f, g) ==
    LET pad == SqrtDigits * LimbBits - Precision
        d == BigShl(g.m, pad)
        scaled == BigShl(f.m, pad + SqrtDigits * LimbBits)
        q == BigDiv(scaled, d)
    IN  IF g.sign = 0
        THEN IF f.sign = 0 THEN NaN ELSE [Inf EXCEPT !.sign = f.sign]
        ELSE RoundToDouble(f.sign * g.sign, q, f.e - g.e - SqrtDigits * LimbBits,
                           BigMul(q, d) = scaled)

\* |s| < |t| for two non-zero numbers
MagnitudeLess(s, t) == s.e < t.e \/ (s.e = t.e /\ BigLess(s.m, t.m))

\* s < t as Python compares floats: every comparison with NaN is false.
ScoreLess(s, t) ==
    IF s.kind = "nan" \/ t.kind = "nan" THEN FALSE
    ELSE IF s.kind = "inf" \/ t.kind = "inf"
    THEN IF s.kind = t.kind THEN s.sign < t.sign
         ELSE IF s.kind = "inf" THEN s.sign < 0 ELSE t.sign > 0
    ELSE IF s.sign # t.sign THEN s.sign < t.sign
    ELSE IF s.sign = 1 THEN MagnitudeLess(s, t)
    ELSE IF s.sign = -1 THEN MagnitudeLess(t, s)
    ELSE FALSE

\* np.sum((descriptor1 - descriptor2) ** 2)
SSDScore(dt, d1, d2) ==
    DoubleOfInt(SumSeq([e \in 1..Len(d1) |-> ElemSquare(dt, ElemSub(dt, d1[e], d2[e]))]))

\* np.linalg.norm converts to float first: |d|^2 is exact in every dtype
NormSq(d) == SumSeq([e \in 1..Len(d) |-> d[e] * d[e]])

\* np.linalg.norm(descriptor): sqrt of the sum of squares
Norm(d) == DoubleSqrt(NormSq(d))

\* np.sum(descriptor1 * descriptor2) / (norm1 * norm2), every operation
\* rounded to float64
NCCScore(dt, d1, d2) ==
    LET correlation == SumSeq([e \in 1..Len(d1) |-> ElemMul(dt, d1[e], d2[e])])
    IN  DoubleDiv(DoubleOfInt(correlation), DoubleMul(Norm(d1), Norm(d2)))

\* best_match_index = None
None == -1

\* best_match_score = float('inf') if method == 'SSD' else -1
InitialBestScore(m) == IF m = "SSD" THEN Inf ELSE DoubleOfInt(-1)

(***************************************************************************)
(* Inputs of match_features.  All descriptors of a call have one length    *)
(* and one dtype.  The float64 samples have integer norms (0, 5) and       *)
(* irrational ones (sqrt 2, sqrt 18), whose products round.                *)
(***************************************************************************)
DTypes == {"uint8", "float64"}
Methods == {"SSD", "NCC"}

DescriptorPool(dt) ==
    IF dt = "uint8" THEN { <<0, 0>>, <<16, 0>>, <<0, 16>>, <<3, 4>> }
                    ELSE { <<0, 0>>, <<3, 4>>, <<-3, -4>>, <<1, 1>>, <<3, 3>> }

(***************************************************************************)
(* Images.  An image is a function row -> column -> pixel, rows 0..H-1 and *)
(* columns 0..W-1; a BGR pixel is <<b, g, r>>.                             *)
(***************************************************************************)
Height(a) == Cardinality(DOMAIN a)
Width(a) == IF Height(a) = 0 THEN 0 ELSE Cardinality(DOMAIN a[0])

Min(a, b) == IF a < b THEN a ELSE b
Max(a, b) == IF a > b THEN a ELSE b

\* cv2.cvtColor(img, cv2.COLOR_BGR2GRAY) on 8-bit samples:
\* (3735 b + 19235 g + 9798 r + 2^14) >> 15
GrayOfPixel(px) == (3735 * px[1] + 19235 * px[2] + 9798 * px[3] + 16384) \div 32768

BGR2GRAY(a) ==
    [yy \in DOMAIN a |-> [xx \in DOMAIN a[yy] |-> GrayOfPixel(a[yy][xx])]]

IdleImage == img = <<>> /\ gray = <<>>
IdleExtract ==
    /\ corners = <<>> /\ patch_size = 0 /\ corner_idx = 0 /\ descriptors = <<>>

IdleLambda ==
    /\ window_size = 0 /\ th_percentage = <<0, 1>> /\ lambda_minus = <<>>
    /\ threshold = <<0, 1>> /\ y = 0 /\ x = 0

IdleHarris == k = <<0, 1>> /\ R = <<>>

IdleMatch ==
    /\ descriptors1 = <<>> /\ descriptors2 = <<>>
    /\ dtype = "float64" /\ method = "SSD"
    /\ i = 0 /\ j = 0
    /\ best_match_index = None /\ best_match_score = Inf
    /\ matches = <<>>

InitMatch ==
    /\ IdleImage /\ IdleExtract /\ IdleLambda /\ IdleHarris
    /\ pc = "match_outer"
    /\ dtype \in DTypes
    /\ method \in Methods
    /\ descriptors1 \in SeqsUpTo(DescriptorPool(dtype), MaxDesc1)
    /\ descriptors2 \in SeqsUpTo(DescriptorPool(dtype), MaxDesc2)
    /\ i = 0 /\ j = 0
    /\ best_match_index = None /\ best_match_score = Inf
    /\ matches = <<>>

(***************************************************************************)
(* match_features, lines 125-144.  i and j are the 0-based loop indices.   *)
(***************************************************************************)
\* for i, descriptor1 in enumerate(descriptors1): reset the best match
MatchBeginRow ==
    /\ pc = "match_outer"
    /\ i < Len(descriptors1)
    /\ best_match_index' = None
    /\ best_match_score' = InitialBestScore(method)
    /\ j' = 0
    /\ pc' = "match_inner"
    /\ UNCHANGED <<descriptors1, descriptors2, dtype, method, i, matches, otherThanMatch>>

\* inner loop body, method == 'SSD': keep a strictly smaller score
MatchScanSSD ==
    /\ pc = "match_inner"
    /\ j < Len(descriptors2)
    /\ method = "SSD"
    /\ LET score == SSDScore(dtype, descriptors1[i + 1], descriptors2[j + 1])
       IN  IF ScoreLess(score, best_match_score)
           THEN best_match_score' = score /\ best_match_index' = j
           ELSE UNCHANGED <<best_match_score, best_match_index>>
    /\ j' = j + 1
    /\ UNCHANGED <<pc, descriptors1, descriptors2, dtype, method, i, matches, otherThanMatch>>

\* inner loop body, any other method: keep a strictly larger score
MatchScanNCC ==
    /\ pc = "match_inner"
    /\ j < Len(descriptors2)
    /\ method # "SSD"
    /\ LET score == NCCScore(dtype, descriptors1[i + 1], descriptors2[j + 1])
       IN  IF ScoreLess(best_match_score, score)
           THEN best_match_score' = score /\ best_match_index' = j
           ELSE UNCHANGED <<best_match_score, best_match_index>>
    /\ j' = j + 1
    /\ UNCHANGED <<pc, descriptors1, descriptors2, dtype, method, i, matches, otherThanMatch>>

\* MatchAppend with a slip: a row that found no partner is left out
MatchAppendSkipsUnmatched ==
    /\ pc = "match_inner"
    /\ j = Len(descriptors2)
    /\ matches' = IF best_match_index = None THEN matches
                  ELSE Append(matches, <<i, best_match_index>>)
    /\ i' = i + 1
    /\ pc' = "match_outer"
    /\ UNCHANGED <<descriptors1, descriptors2, dtype, method, j,
                   best_match_index, best_match_score, otherThanMatch>>

\* matches.append((i, best_match_index))
MatchAppend ==
    /\ pc = "match_inner"
    /\ j = Len(descriptors2)
    /\ matches' = Append(matches, <<i, best_match_index>>)
    /\ i' = i + 1
    /\ pc' = "match_outer"
    /\ UNCHANGED <<descriptors1, descriptors2, dtype, method, j,
                   best_match_index, best_match_score, otherThanMatch>>

\* return matches
MatchReturn ==
    /\ pc = "match_outer"
    /\ i = Len(descriptors1)
    /\ pc' = "match_done"
    /\ UNCHANGED <<matchVars, otherThanMatch>>

NextMatch ==
    \/ MatchBeginRow
    \/ MatchScanSSD
    \/ MatchScanNCC
    \/ MatchAppend
    \/ MatchReturn

SpecMatch == InitMatch /\ [][NextMatch]_vars

(***************************************************************************)
(* extract_feature_descriptors, lines 93-109.                              *)
(***************************************************************************)
\* a colour test image whose gray values are pairwise distinct
TestPixel(xx, yy) ==
    <<(17 * xx + 3 * yy) % 256, (5 * xx + 41 * yy) % 256, (250 - 9 * xx - 2 * yy) % 256>>

TestImage(w, h) == [yy \in 0..(h - 1) |-> [xx \in 0..(w - 1) |-> TestPixel(xx, yy)]]

\* corner candidates: every pixel of the image and a few points outside it
CornerCandidates(w, h) ==
    ((0..(w - 1)) \X (0..(h - 1))) \cup { <<-2, -2>>, <<-1, 1>>, <<w, h>> }

InitExtract ==
    /\ IdleMatch /\ IdleLambda /\ IdleHarris
    /\ pc = "extract_start"
    /\ img = TestImage(ImgW, ImgH)
    /\ gray = <<>>
    /\ corners \in SeqsUpTo(CornerCandidates(ImgW, ImgH), MaxCorners)
    /\ patch_size \in 1..MaxPatch
    /\ corner_idx = 0
    /\ descriptors = <<>>

\* a Python slice bound on an axis of length n: a negative bound counts from
\* the end, and both ends are clipped to 0..n
SliceBound(v, n) == IF v < 0 THEN Max(v + n, 0) ELSE Min(v, n)

\* the indices a[lo:hi] selects on an axis of length n
SliceStart(lo, hi, n) == SliceBound(lo, n)
SliceLen(lo, hi, n) == Max(SliceBound(hi, n) - SliceBound(lo, n), 0)

\* lines 98-101: the bounds of the patch around corner (cx, cy)
PatchXMin(cx, p) == Max(0, cx - (p \div 2))
\* PatchXMax with a slip: the last column taken as an inclusive bound
PatchXMaxInclusive(cx, p, w) == Min(w - 1, cx + (p \div 2))
PatchXMax(cx, p, w) == Min(w, cx + (p \div 2))
PatchYMin(cy, p) == Max(0, cy - (p \div 2))
PatchYMax(cy, p, h) == Min(h, cy + (p \div 2))

\* line 103: patch = img_gray[patch_y_min:patch_y_max, patch_x_min:patch_x_max]
\* as the sequence of its rows, each the sequence of its samples
Patch(g, corner, p) ==
    LET w == Width(g)
        h == Height(g)
        x0 == SliceStart(PatchXMin(corner[1], p), PatchXMax(corner[1], p, w), w)
        nx == SliceLen(PatchXMin(corner[1], p), PatchXMax(corner[1], p, w), w)
        y0 == SliceStart(PatchYMin(corner[2], p), PatchYMax(corner[2], p, h), h)
        ny == SliceLen(PatchYMin(corner[2], p), PatchYMax(corner[2], p, h), h)
    IN  [r \in 1..ny |-> [c \in 1..nx |-> g[y0 + r - 1][x0 + c - 1]]]

\* patch.shape, as (rows, columns)
PatchShape(g, corner, p) ==
    LET w == Width(g)
        h == Height(g)
    IN  <<SliceLen(PatchYMin(corner[2], p), PatchYMax(corner[2], p, h), h),
          SliceLen(PatchXMin(corner[1], p), PatchXMax(corner[1], p, w), w)>>

\* Flatten with a slip: column-major order
FlattenColumnMajor(rows) ==
    IF rows = <<>> \/ rows[1] = <<>> THEN <<>>
    ELSE LET ny == Len(rows)
         IN  [e \in 1..(ny * Len(rows[1])) |-> rows[((e - 1) % ny) + 1][((e - 1) \div ny) + 1]]

\* patch.flatten(): row-major order
Flatten(rows) ==
    IF rows = <<>> \/ rows[1] = <<>> THEN <<>>
    ELSE LET nx == Len(rows[1])
         IN  [e \in 1..(Len(rows) * nx) |-> rows[((e - 1) \div nx) + 1][((e - 1) % nx) + 1]]

\* lines 93-94: the grayscale conversion and the empty result list
ExtractBegin ==
    /\ pc = "extract_start"
    /\ gray' = BGR2GRAY(img)
    /\ descriptors' = <<>>
    /\ pc' = "extract_loop"
    /\ UNCHANGED <<matchVars, lambdaVars, harrisVars, img, corners, patch_size, corner_idx>>

\* lines 95-106: a corner whose patch is not patch_size x patch_size is skipped
ExtractSkip ==
    /\ pc = "extract_loop"
    /\ corner_idx < Len(corners)
    /\ PatchShape(gray, corners[corner_idx + 1], patch_size) # <<patch_size, patch_size>>
    /\ corner_idx' = corner_idx + 1
    /\ UNCHANGED <<pc, matchVars, lambdaVars, harrisVars, imageVars, corners, patch_size, descriptors>>

\* lines 95-108: the flattened patch is appended
ExtractAppend ==
    /\ pc = "extract_loop"
    /\ corner_idx < Len(corners)
    /\ PatchShape(gray, corners[corner_idx + 1], patch_size) = <<patch_size, patch_size>>
    /\ descriptors' =
          Append(descriptors, Flatten(Patch(gray, corners[corner_idx + 1], patch_size)))
    /\ corner_idx' = corner_idx + 1
    /\ UNCHANGED <<pc, matchVars, lambdaVars, harrisVars, imageVars, corners, patch_size>>

\* line 109: return np.array(descriptors)
ExtractReturn ==
    /\ pc = "extract_loop"
    /\ corner_idx = Len(corners)
    /\ pc' = "extract_done"
    /\ UNCHANGED <<matchVars, lambdaVars, harrisVars, imageVars, corners, extractVars>>

NextExtract ==
    \/ ExtractBegin
    \/ ExtractSkip
    \/ ExtractAppend
    \/ ExtractReturn

SpecExtract == InitExtract /\ [][NextExtract]_vars

(***************************************************************************)
(* lambda_minus_corner_detection, lines 18-55.                             *)
(* Real numbers are kept exact: th_percentage and threshold are fractions  *)
(* <<numerator, denominator>> with a positive denominator, and the         *)
(* eigenvalues come from the closed form for a symmetric 2x2 matrix.       *)
(***************************************************************************)
\* the index cv2.Sobel reads for idx on an axis of length n >= 2
\* (BORDER_REFLECT_101, its default border)
Reflect101(idx, n) ==
    IF idx < 0 THEN -idx ELSE IF idx >= n THEN 2 * n - 2 - idx ELSE idx

BorderPixel(g, xx, yy) == g[Reflect101(yy, Height(g))][Reflect101(xx, Width(g))]

\* cv2.Sobel(img, cv2.CV_64F, 1, 0, ksize=3): kernel [-1 0 1; -2 0 2; -1 0 1]
SobelX(g, xx, yy) ==
      (BorderPixel(g, xx + 1, yy - 1) - BorderPixel(g, xx - 1, yy - 1))
    + 2 * (BorderPixel(g, xx + 1, yy) - BorderPixel(g, xx - 1, yy))
    + (BorderPixel(g, xx + 1, yy + 1) - BorderPixel(g, xx - 1, yy + 1))

\* cv2.Sobel(img, cv2.CV_64F, 0, 1, ksize=3): kernel [-1 -2 -1; 0 0 0; 1 2 1]
SobelY(g, xx, yy) ==
      (BorderPixel(g, xx - 1, yy + 1) - BorderPixel(g, xx - 1, yy - 1))
    + 2 * (BorderPixel(g, xx, yy + 1) - BorderPixel(g, xx, yy - 1))
    + (BorderPixel(g, xx + 1, yy + 1) - BorderPixel(g, xx + 1, yy - 1))

\* lines 25-27: M = [[Ix2, Ixy], [Ixy, Iy2]] at one pixel, as <<Ix2, Ixy, Iy2>>
Tensor(ix, iy) == <<ix * ix, ix * iy, iy * iy>>

\* the tensors of the image that are not diagonal
FullTensors(g) ==
    { M \in { Tensor(SobelX(g, xx, yy), SobelY(g, xx, yy)) :
                 yy \in DOMAIN g, xx \in DOMAIN g[0] } : M[2] # 0 }

\* lines 30-36: np.linalg.eig and the minimum of the two eigenvalues.  The
\* exact smaller eigenvalue is (trace - sqrt(trace^2 - 4 det)) / 2, and
\* trace^2 - 4 det = (Ix2 - Iy2)^2 + 4 Ixy^2 is the perfect square
\* (Ix^2 + Iy^2)^2 for the tensor of one gradient: the exact value is 0 at
\* every pixel.  The solver returns the diagonal entries of a diagonal
\* matrix as they are.  For any other matrix it iterates in float64 and
\* returns 0 up to a rounding residue, negative, zero or positive, whose
\* sign and size depend on the matrix and on how the LAPACK library was
\* built; residue counts it in a unit far below 1.
Residues == {-1, 0, 1}

SmallerEigenvalue(M, residue) ==
    LET trace == M[1] + M[3]
        det == M[1] * M[3] - M[2] * M[2]
        root == CHOOSE r \in 0..trace : r * r = trace * trace - 4 * det
    IN  IF M[2] = 0 THEN (trace - root) \div 2
        ELSE ((trace - root) \div 2) + residue

\* the response of every pixel; solver[M] is the residue the solver leaves
\* on the matrix M
LambdaMinusMap(g, solver) ==
    [yy \in DOMAIN g |-> [xx \in DOMAIN g[yy] |->
        LET M == Tensor(SobelX(g, xx, yy), SobelY(g, xx, yy))
        IN  SmallerEigenvalue(M, IF M[2] = 0 THEN 0 ELSE solver[M])]]

\* np.max of a non-empty map
MapMax(m) ==
    CHOOSE v \in { m[yy][xx] : yy \in DOMAIN m, xx \in DOMAIN m[0] } :
        \A yy \in DOMAIN m : \A xx \in DOMAIN m[yy] : m[yy][xx] <= v

\* th_percentage * np.max(lambda_minus)
ThresholdOf(th, m) == <<th[1] * MapMax(m), th[2]>>

\* ExceedsThreshold with a slip: >= for >
ReachesThreshold(v, thr) == v * thr[2] >= thr[1]

\* lambda_minus[y, x] > threshold
ExceedsThreshold(v, thr) == v * thr[2] > thr[1]

\* WindowMax with a slip: the slice ends taken without the + 1
WindowMaxHalfOpen(m, xx, yy, w) ==
    LET win == { m[r][c] : r \in (yy - w)..Max(yy + w - 1, yy), c \in (xx - w)..Max(xx + w - 1, xx) }
    IN  CHOOSE v \in win : \A u \in win : u <= v

\* lines 49-52: np.max(lambda_minus[y - w:y + w + 1, x - w:x + w + 1]) for a
\* pixel at least w from every border
WindowMax(m, xx, yy, w) ==
    LET win == { m[r][c] : r \in (yy - w)..(yy + w), c \in (xx - w)..(xx + w) }
    IN  CHOOSE v \in win : \A u \in win : u <= v

\* the synthetic image: value 0 everywhere but a bright quadrant whose only
\* corner is at (SceneCorner, SceneCorner); all three channels are equal
SceneBrightness == {1, 2}

SceneBright(xx, yy) == xx >= SceneCorner /\ yy >= SceneCorner

SceneImage(b) ==
    [yy \in 0..(SceneSize - 1) |-> [xx \in 0..(SceneSize - 1) |->
        IF SceneBright(xx, yy) THEN <<b, b, b>> ELSE <<0, 0, 0>>]]

\* response maps for the selection stage: a constant background with at
\* most MaxPeaks pixels set to other values
Backgrounds == {0, 1}
PeakValues == {-1, 2, 3}
ThPercentages == { <<1, 100>>, <<1, 2>>, <<1, 1>> }

MapCells == (0..(MapW - 1)) \X (0..(MapH - 1))

RECURSIVE MapWithPeaks(_, _)
MapWithPeaks(bg, peaks) ==
    IF peaks = <<>>
    THEN [yy \in 0..(MapH - 1) |-> [xx \in 0..(MapW - 1) |-> bg]]
    ELSE LET cell == Head(peaks)[1]
             rest == MapWithPeaks(bg, Tail(peaks))
         IN  [rest EXCEPT ![cell[2]][cell[1]] = Head(peaks)[2]]

\* the call of the synthetic scene, from the image argument on
InitLambdaScene ==
    /\ pc = "lm_start"
    /\ \E b \in SceneBrightness : img = SceneImage(b)
    /\ window_size = DefaultWindowSize
    /\ th_percentage = <<1, 100>>
    /\ lambda_minus = <<>>

\* the selection stage alone (lines 39-55), from a given response map.
\* Lines 18-36 give a map of rounding residues for every image (the tensor
\* of a single gradient is singular); the selection is also run on maps of
\* any other values.
InitLambdaMap ==
    /\ pc = "lm_threshold"
    /\ img = <<>>
    /\ window_size \in 0..MaxWindow
    /\ th_percentage \in ThPercentages
    /\ \E bg \in Backgrounds, peaks \in SeqsUpTo(MapCells \X PeakValues, MaxPeaks) :
          lambda_minus = MapWithPeaks(bg, peaks)

InitLambda ==
    /\ IdleMatch /\ IdleHarris
    /\ patch_size = 0 /\ corner_idx = 0 /\ descriptors = <<>>
    /\ gray = <<>>
    /\ corners = <<>>
    /\ threshold = <<0, 1>> /\ y = 0 /\ x = 0
    /\ (InitLambdaScene \/ InitLambdaMap)

\* lines 18-36: grayscale, gradients, structure tensor, smaller eigenvalue
LambdaResponse ==
    /\ pc = "lm_start"
    /\ gray' = BGR2GRAY(img)
    /\ \E solver \in [FullTensors(BGR2GRAY(img)) -> Residues] :
          lambda_minus' = LambdaMinusMap(BGR2GRAY(img), solver)
    /\ pc' = "lm_threshold"
    /\ UNCHANGED <<matchVars, extractVars, harrisVars, img, corners,
                   window_size, th_percentage, threshold, y, x>>

\* lines 39-45: the threshold, the empty list, the first row of the scan
LambdaThreshold ==
    /\ pc = "lm_threshold"
    /\ threshold' = ThresholdOf(th_percentage, lambda_minus)
    /\ corners' = <<>>
    /\ y' = window_size
    /\ x' = window_size
    /\ pc' = "lm_scan"
    /\ UNCHANGED <<matchVars, extractVars, harrisVars, imageVars,
                   window_size, th_percentage, lambda_minus>>

\* line 47 fails: the pixel does not exceed the threshold
LambdaBelowThreshold ==
    /\ pc = "lm_scan"
    /\ y < Height(lambda_minus) - window_size
    /\ x < Width(lambda_minus) - window_size
    /\ ~ExceedsThreshold(lambda_minus[y][x], threshold)
    /\ x' = x + 1
    /\ UNCHANGED <<pc, matchVars, extractVars, harrisVars, imageVars, corners,
                   window_size, th_percentage, lambda_minus, threshold, y>>

\* line 52 fails: the pixel is not the maximum of its window
LambdaSuppressed ==
    /\ pc = "lm_scan"
    /\ y < Height(lambda_minus) - window_size
    /\ x < Width(lambda_minus) - window_size
    /\ ExceedsThreshold(lambda_minus[y][x], threshold)
    /\ lambda_minus[y][x] # WindowMax(lambda_minus, x, y, window_size)
    /\ x' = x + 1
    /\ UNCHANGED <<pc, matchVars, extractVars, harrisVars, imageVars, corners,
                   window_size, th_percentage, lambda_minus, threshold, y>>

\* line 53: corners.append((x, y))
LambdaAppend ==
    /\ pc = "lm_scan"
    /\ y < Height(lambda_minus) - window_size
    /\ x < Width(lambda_minus) - window_size
    /\ ExceedsThreshold(lambda_minus[y][x], threshold)
    /\ lambda_minus[y][x] = WindowMax(lambda_minus, x, y, window_size)
    /\ corners' = Append(corners, <<x, y>>)
    /\ x' = x + 1
    /\ UNCHANGED <<pc, matchVars, extractVars, harrisVars, imageVars,
                   window_size, th_percentage, lambda_minus, threshold, y>>

\* line 46 ends the row: the scan moves to the next one
LambdaNextRow ==
    /\ pc = "lm_scan"
    /\ y < Height(lambda_minus) - window_size
    /\ x >= Width(lambda_minus) - window_size
    /\ y' = y + 1
    /\ x' = window_size
    /\ UNCHANGED <<pc, matchVars, extractVars, harrisVars, imageVars, corners,
                   window_size, th_percentage, lambda_minus, threshold>>

\* line 55: return corners
LambdaReturn ==
    /\ pc = "lm_scan"
    /\ y >= Height(lambda_minus) - window_size
    /\ pc' = "lm_done"
    /\ UNCHANGED <<matchVars, extractVars, harrisVars, imageVars, corners, lambdaVars>>

NextLambda ==
    \/ LambdaResponse
    \/ LambdaThreshold
    \/ LambdaBelowThreshold
    \/ LambdaSuppressed
    \/ LambdaAppend
    \/ LambdaNextRow
    \/ LambdaReturn

SpecLambda == InitLambda /\ [][NextLambda]_vars

(***************************************************************************)
(* harris_corner_detection, lines 59-77.                                   *)
(* cv2.boxFilter averages: Sx2 = (window sum of Ix2) / window_size^2.  R   *)
(* is kept as the integer R * k[2] * window_size^4, computed from the      *)
(* window sums; the positive factor changes no comparison of line 75.      *)
(* The sums and products are exact integers where the code rounds to       *)
(* float64.                                                                *)
(***************************************************************************)
\* k=0.04
DefaultK == <<1, 25>>

\* cv2.boxFilter(field, -1, (w, w)) before the division by w * w: the sum
\* over the w x w window anchored at its centre w // 2, BORDER_REFLECT_101
BoxSum(field, xx, yy, w) ==
    LET a == w \div 2
        h == Height(field)
        wd == Width(field)
    IN  SumSeq([n \in 1..(w * w) |->
            field[Reflect101(yy - a + ((n - 1) \div w), h)]
                 [Reflect101(xx - a + ((n - 1) % w), wd)]])

\* lines 60-71
HarrisResponseMap(g, w, kk) ==
    LET Ix == [yy \in DOMAIN g |-> [xx \in DOMAIN g[yy] |-> SobelX(g, xx, yy)]]
        Iy == [yy \in DOMAIN g |-> [xx \in DOMAIN g[yy] |-> SobelY(g, xx, yy)]]
        Ix2 == [yy \in DOMAIN g |-> [xx \in DOMAIN g[yy] |-> Ix[yy][xx] * Ix[yy][xx]]]
        Iy2 == [yy \in DOMAIN g |-> [xx \in DOMAIN g[yy] |-> Iy[yy][xx] * Iy[yy][xx]]]
        Ixy == [yy \in DOMAIN g |-> [xx \in DOMAIN g[yy] |-> Ix[yy][xx] * Iy[yy][xx]]]
    IN  [yy \in DOMAIN g |-> [xx \in DOMAIN g[yy] |->
            LET Sx2 == BoxSum(Ix2, xx, yy, w)
                Sy2 == BoxSum(Iy2, xx, yy, w)
                Sxy == BoxSum(Ixy, xx, yy, w)
            IN  kk[2] * (Sx2 * Sy2 - Sxy * Sxy) - kk[1] * (Sx2 + Sy2) * (Sx2 + Sy2)]]

\* ArgWhere with a slip: the pairs written as (column, row)
ArgWhereXY(m, thr) ==
    LET wd == Width(m)
    IN  SelectSeq([n \in 1..(Height(m) * wd) |-> <<(n - 1) % wd, (n - 1) \div wd>>],
                  LAMBDA xy : ExceedsThreshold(m[xy[2]][xy[1]], thr))

\* np.argwhere(R > threshold): the (row, column) index pairs, in C order
ArgWhere(m, thr) ==
    LET wd == Width(m)
    IN  SelectSeq([n \in 1..(Height(m) * wd) |-> <<(n - 1) \div wd, (n - 1) % wd>>],
                  LAMBDA rc : ExceedsThreshold(m[rc[1]][rc[2]], thr))

\* input images: flat (all 0) or a horizontal ramp, with at most MaxSpots
\* pixels set to other values; all three channels are equal
HarrisBases == {"flat", "ramp"}
SpotValues == {1, 2}
HarrisThPercentages == { <<1, 2>>, <<1, 1>>, <<2, 1>> }

HarrisCells == (0..(HarrisW - 1)) \X (0..(HarrisH - 1))

RECURSIVE ImageWithSpots(_, _)
ImageWithSpots(base, spots) ==
    IF spots = <<>>
    THEN [yy \in 0..(HarrisH - 1) |-> [xx \in 0..(HarrisW - 1) |->
             IF base = "ramp" THEN <<xx, xx, xx>> ELSE <<0, 0, 0>>]]
    ELSE LET cell == Head(spots)[1]
             v == Head(spots)[2]
             rest == ImageWithSpots(base, Tail(spots))
         IN  [rest EXCEPT ![cell[2]][cell[1]] = <<v, v, v>>]

InitHarris ==
    /\ IdleMatch
    /\ patch_size = 0 /\ corner_idx = 0 /\ descriptors = <<>>
    /\ lambda_minus = <<>> /\ y = 0 /\ x = 0
    /\ pc = "harris_start"
    /\ \E base \in HarrisBases, spots \in SeqsUpTo(HarrisCells \X SpotValues, MaxSpots) :
          img = ImageWithSpots(base, spots)
    /\ gray = <<>>
    /\ window_size \in 1..MaxBox
    /\ k = DefaultK
    /\ th_percentage \in HarrisThPercentages
    /\ R = <<>>
    /\ threshold = <<0, 1>>
    /\ corners = <<>>

\* lines 59-71: grayscale, gradients, box-filtered tensor, response
HarrisResponse ==
    /\ pc = "harris_start"
    /\ gray' = BGR2GRAY(img)
    /\ R' = HarrisResponseMap(BGR2GRAY(img), window_size, k)
    /\ pc' = "harris_threshold"
    /\ UNCHANGED <<matchVars, extractVars, img, corners, lambdaVars, k>>

\* line 74: threshold = th_percentage * np.max(R)
HarrisThreshold ==
    /\ pc = "harris_threshold"
    /\ threshold' = ThresholdOf(th_percentage, R)
    /\ pc' = "harris_select"
    /\ UNCHANGED <<matchVars, extractVars, imageVars, corners, harrisVars,
                   window_size, th_percentage, lambda_minus, y, x>>

\* lines 75-77: corners = np.argwhere(R > threshold); return corners
HarrisSelect ==
    /\ pc = "harris_select"
    /\ corners' = ArgWhere(R, threshold)
    /\ pc' = "harris_done"
    /\ UNCHANGED <<matchVars, extractVars, imageVars, lambdaVars, harrisVars>>

NextHarris ==
    \/ HarrisResponse
    \/ HarrisThreshold
    \/ HarrisSelect

SpecHarris == InitHarris /\ [][NextHarris]_vars

(***************************************************************************)
(* The module as a whole: a call of any one of the four functions.         *)
(***************************************************************************)
Init == InitMatch \/ InitExtract \/ InitLambda \/ InitHarris

Next == NextMatch \/ NextExtract \/ NextLambda \/ NextHarris

Spec == Init /\ [][Next]_vars

(***************************************************************************)
(* Properties of match_features.                                           *)
(***************************************************************************)
\* the sum of squared differences in exact arithmetic
ExactSSD(d1, d2) ==
    SumSeq([e \in 1..Len(d1) |-> (d1[e] - d2[e]) * (d1[e] - d2[e])])

\* the correlation in exact arithmetic: the real number c / sqrt(n)
ExactNCC(d1, d2) ==
    [c |-> SumSeq([e \in 1..Len(d1) |-> d1[e] * d2[e]]), n |-> NormSq(d1) * NormSq(d2)]

\* s < t for two such real numbers
RealLess(s, t) == s.c * Abs(s.c) * t.n < t.c * Abs(t.c) * s.n

\* the smallest 0-based index of B with the least exact SSD to d
FirstMinSSD(d, B) ==
    CHOOSE b \in 0..(Len(B) - 1) :
        \A o \in 0..(Len(B) - 1) :
            /\ ExactSSD(d, B[b + 1]) <= ExactSSD(d, B[o + 1])
            /\ o < b => ExactSSD(d, B[b + 1]) < ExactSSD(d, B[o + 1])

\* the smallest 0-based index of B with the greatest exact NCC to d
FirstMaxNCC(d, B) ==
    CHOOSE b \in 0..(Len(B) - 1) :
        \A o \in 0..(Len(B) - 1) :
            /\ ~RealLess(ExactNCC(d, B[b + 1]), ExactNCC(d, B[o + 1]))
            /\ o < b => RealLess(ExactNCC(d, B[o + 1]), ExactNCC(d, B[b + 1]))

PairwiseDistinct(A) ==
    \A r, q \in 1..Len(A) : r # q => A[r] # A[q]

\* C1: under SSD with a non-empty B, every index of A is paired with the
\* smallest index of B whose exact sum of squared differences is minimal,
\* for float and for 8-bit unsigned descriptors alike.
C1_SSDPairsNearest ==
    (pc = "match_done" /\ method = "SSD" /\ descriptors2 # <<>>) =>
        /\ Len(matches) = Len(descriptors1)
        /\ \A r \in 1..Len(descriptors1) :
              matches[r] = <<r - 1, FirstMinSSD(descriptors1[r], descriptors2)>>

\* C2: self-matching under SSD: when the descriptors of A are pairwise
\* distinct, match_features(A, A, 'SSD') pairs every index with itself.
C2_SelfMatchSSD ==
    (/\ pc = "match_done" /\ method = "SSD"
     /\ descriptors2 = descriptors1 /\ PairwiseDistinct(descriptors1)) =>
        /\ Len(matches) = Len(descriptors1)
        /\ \A r \in 1..Len(descriptors1) : matches[r] = <<r - 1, r - 1>>

\* C3: under NCC with a non-empty B of non-zero norms, every index of A has
\* a partner (never None), and it is the smallest index of B maximizing the
\* normalized cross-correlation.
C3_NCCPairsBest ==
    (/\ pc = "match_done" /\ method = "NCC" /\ descriptors2 # <<>>
     /\ \A q \in 1..Len(descriptors2) : NormSq(descriptors2[q]) # 0) =>
        /\ Len(matches) = Len(descriptors1)
        /\ \A r \in 1..Len(descriptors1) :
              /\ matches[r][2] # None
              /\ NormSq(descriptors1[r]) # 0 =>
                    matches[r] = <<r - 1, FirstMaxNCC(descriptors1[r], descriptors2)>>

\* C4: the result has one entry per descriptor of A, the i-th being
\* (i, p_i); with an empty B every p_i is None, with an empty A the result
\* is the empty list; the call ends in both cases.
C4_OneEntryPerRow ==
    /\ Len(matches) = i
    /\ i <= Len(descriptors1)
    /\ \A r \in 1..Len(matches) :
          /\ matches[r][1] = r - 1
          /\ descriptors2 = <<>> => matches[r][2] = None
    /\ pc = "match_done" =>
          /\ Len(matches) = Len(descriptors1)
          /\ descriptors1 = <<>> => matches = <<>>
    /\ (pc # "match_done" /\ (descriptors1 = <<>> \/ descriptors2 = <<>>)) =>
          ENABLED NextMatch

C4_Witness ==
    /\ pc = "match_done"
    /\ Len(descriptors1) = 2
    /\ descriptors2 = <<>>
    /\ matches = << <<0, None>>, <<1, None>> >>

(***************************************************************************)
(* Properties of extract_feature_descriptors.                              *)
(***************************************************************************)
InsideImage(c) == c[1] \in 0..(ImgW - 1) /\ c[2] \in 0..(ImgH - 1)

\* the distances of a corner to the four border rows and columns
LeftDist(c) == c[1]
RightDist(c) == ImgW - 1 - c[1]
TopDist(c) == c[2]
BottomDist(c) == ImgH - 1 - c[2]

EvenPatch == patch_size % 2 = 0
Half == patch_size \div 2

\* the number of the corners processed so far that satisfy Keep
Processed(Keep(_)) == Cardinality({r \in 1..corner_idx : Keep(corners[r])})

FarFromEveryBorder(c) ==
    LeftDist(c) >= Half /\ RightDist(c) >= Half /\ TopDist(c) >= Half /\ BottomDist(c) >= Half

\* C6 as stated: for an even patch_size and corners inside the image, a
\* corner at least patch_size/2 from every border yields a descriptor of
\* length patch_size^2, and a corner within patch_size/2 - 1 of any border
\* yields none.
C6_BoundaryRule ==
    (EvenPatch /\ \A r \in 1..Len(corners) : InsideImage(corners[r])) =>
        /\ Len(descriptors) = Processed(FarFromEveryBorder)
        /\ \A n \in 1..Len(descriptors) : Len(descriptors[n]) = patch_size * patch_size

FitsPatch(c) ==
    /\ LeftDist(c) >= Half /\ TopDist(c) >= Half
    /\ RightDist(c) >= Half - 1 /\ BottomDist(c) >= Half - 1

\* C6 amended: the patch spans [x - patch_size/2, x + patch_size/2), so the
\* right and bottom borders may be one pixel closer: a corner yields a
\* descriptor of length patch_size^2 iff its left and top distances are at
\* least patch_size/2 and its right and bottom distances at least
\* patch_size/2 - 1; every other corner is excluded.
C6_BoundaryRuleAmended ==
    (EvenPatch /\ \A r \in 1..Len(corners) : InsideImage(corners[r])) =>
        /\ Len(descriptors) = Processed(FitsPatch)
        /\ \A n \in 1..Len(descriptors) : Len(descriptors[n]) = patch_size * patch_size

\* a kept corner whose right border is only patch_size/2 - 1 away
C6_Witness ==
    /\ pc = "extract_done"
    /\ patch_size = 4
    /\ Len(corners) = 1
    /\ InsideImage(corners[1])
    /\ RightDist(corners[1]) = Half - 1
    /\ Len(descriptors) = 1

\* the indices, in ascending order, of the processed corners whose crop is
\* exactly patch_size x patch_size
Survivors ==
    SelectSeq([r \in 1..corner_idx |-> r],
              LAMBDA r : PatchShape(gray, corners[r], patch_size) = <<patch_size, patch_size>>)

\* C7: the descriptors are one per surviving corner, in the order of the
\* corner list, each of length patch_size^2 and the row-major flattening of
\* the corner's crop of the grayscale image; there are never more
\* descriptors than corners, and a dropped corner stops nothing.
C7_DescriptorsOfSurvivors ==
    pc # "extract_start" =>
        /\ Len(descriptors) = Len(Survivors)
        /\ Len(descriptors) <= Len(corners)
        /\ \A n \in 1..Len(descriptors) :
              LET c == corners[Survivors[n]]
                  x0 == Max(0, c[1] - (patch_size \div 2))
                  y0 == Max(0, c[2] - (patch_size \div 2))
              IN  /\ Len(descriptors[n]) = patch_size * patch_size
                  /\ \A e \in 1..(patch_size * patch_size) :
                        descriptors[n][e] =
                            GrayOfPixel(img[y0 + ((e - 1) \div patch_size)]
                                           [x0 + ((e - 1) % patch_size)])
        /\ pc # "extract_done" => ENABLED NextExtract

\* the first corner is dropped, the second yields the only descriptor
C7_Witness ==
    /\ pc = "extract_done"
    /\ patch_size = 2
    /\ Len(corners) = 2
    /\ Survivors = <<2>>
    /\ Len(descriptors) = 1

(***************************************************************************)
(* Properties of lambda_minus_corner_detection.                            *)
(***************************************************************************)
CornerSet == { corners[n] : n \in 1..Len(corners) }

\* C5: on the synthetic scene (one bright L-corner at (SceneCorner,
\* SceneCorner) on a background of 0, default window_size and
\* th_percentage) the returned list holds the corner pixel or one of its
\* immediate neighbours, and no corner anywhere else.
C5_SceneCornerFound ==
    (pc = "lm_done" /\ img # <<>>) =>
        /\ \E c \in CornerSet :
              Abs(c[1] - SceneCorner) <= 1 /\ Abs(c[2] - SceneCorner) <= 1
        /\ \A c \in CornerSet :
              Abs(c[1] - SceneCorner) <= 1 /\ Abs(c[2] - SceneCorner) <= 1

\* the selection rule, stated on the response map: inside the border of
\* width window_size, above th_percentage * max, and equal to the maximum
\* of the (2 window_size + 1)^2 window around it
Selected(xx, yy) ==
    /\ window_size <= xx /\ xx < Width(lambda_minus) - window_size
    /\ window_size <= yy /\ yy < Height(lambda_minus) - window_size
    /\ lambda_minus[yy][xx] * th_percentage[2] > th_percentage[1] * MapMax(lambda_minus)
    /\ \A r \in (yy - window_size)..(yy + window_size) :
          \A c \in (xx - window_size)..(xx + window_size) :
              lambda_minus[r][c] <= lambda_minus[yy][xx]

\* C8: the returned list holds (x, y) iff the pixel in column x and row y
\* is selected by the rule above, each once and in row-major scan order;
\* no returned corner is within window_size of a border.
C8_SelectionRule ==
    pc = "lm_done" =>
        /\ \A yy \in DOMAIN lambda_minus : \A xx \in DOMAIN lambda_minus[yy] :
              (<<xx, yy>> \in CornerSet) <=> Selected(xx, yy)
        /\ \A c \in CornerSet :
              /\ c[1] \in window_size..(Width(lambda_minus) - window_size - 1)
              /\ c[2] \in window_size..(Height(lambda_minus) - window_size - 1)
        /\ \A a, b \in 1..Len(corners) :
              a < b => \/ corners[a][2] < corners[b][2]
                       \/ corners[a][2] = corners[b][2] /\ corners[a][1] < corners[b][1]

\* a map with a window around each pixel, returning two corners of one row
C8_Witness ==
    /\ pc = "lm_done"
    /\ img = <<>>
    /\ window_size = 1
    /\ Len(corners) = 2
    /\ corners[1][1] < corners[2][1]
    /\ \E yy \in DOMAIN lambda_minus : \E xx \in DOMAIN lambda_minus[yy] :
          /\ window_size <= xx /\ xx < Width(lambda_minus) - window_size
          /\ window_size <= yy /\ yy < Height(lambda_minus) - window_size
          /\ <<xx, yy>> \notin CornerSet

\* C10: two distinct returned corners no more than window_size apart in
\* both axes have equal responses.
C10_NearCornersEqual ==
    pc \in {"lm_scan", "lm_done"} =>
        \A a, b \in 1..Len(corners) :
            (/\ a # b
             /\ Abs(corners[a][1] - corners[b][1]) <= window_size
             /\ Abs(corners[a][2] - corners[b][2]) <= window_size) =>
                /\ corners[a] # corners[b]
                /\ lambda_minus[corners[a][2]][corners[a][1]]
                      = lambda_minus[corners[b][2]][corners[b][1]]

\* two adjacent returned corners of equal response, next to a suppressed pixel
C10_Witness ==
    /\ pc = "lm_done"
    /\ window_size = 1
    /\ \E a, b \in 1..Len(corners) :
          /\ a # b
          /\ Abs(corners[a][1] - corners[b][1]) <= window_size
          /\ Abs(corners[a][2] - corners[b][2]) <= window_size
    /\ \E yy \in DOMAIN lambda_minus : \E xx \in DOMAIN lambda_minus[yy] :
          /\ lambda_minus[yy][xx] # MapMax(lambda_minus)
          /\ lambda_minus[yy][xx] * th_percentage[2] > th_percentage[1] * MapMax(lambda_minus)

(***************************************************************************)
(* Properties of harris_corner_detection.                                  *)
(***************************************************************************)
\* C9: the result holds exactly the pixels whose response exceeds
\* th_percentage * max(R), border pixels included, each once, as (row,
\* column) pairs in scan order; it is empty whenever max(R) <= 0 and
\* th_percentage is in (0, 1].
C9_HarrisThresholdOnly ==
    pc = "harris_done" =>
        /\ \A yy \in DOMAIN R : \A xx \in DOMAIN R[yy] :
              (<<yy, xx>> \in CornerSet) <=>
                  R[yy][xx] * th_percentage[2] > th_percentage[1] * MapMax(R)
        /\ \A c \in CornerSet : c[1] \in DOMAIN R /\ c[2] \in DOMAIN R[c[1]]
        /\ \A a, b \in 1..Len(corners) : a # b => corners[a] # corners[b]
        /\ (/\ MapMax(R) <= 0
            /\ 0 < th_percentage[1] /\ th_percentage[1] <= th_percentage[2]) =>
              corners = <<>>

\* a border pixel of the last column is returned, written row first, under
\* a threshold of half the (positive) maximum
C9_Witness ==
    /\ pc = "harris_done"
    /\ th_percentage = <<1, 2>>
    /\ MapMax(R) > 0
    /\ \E n \in 1..Len(corners) :
          /\ corners[n][2] = Width(R) - 1
          /\ corners[n][1] < Height(R)
          /\ corners[n][2] >= Height(R)
    /\ \E yy \in DOMAIN R : \E xx \in DOMAIN R[yy] : <<yy, xx>> \notin CornerSet

====
